---- MODULE Spec2Model ----
(***************************************************************************)
(* Verification model of ritual's bookkeeping core:                        *)
(*   - CppCheckerInfoList (database.rs): the per-item checker ledger,      *)
(*   - Database::add_cpp_data / clear (database.rs): the native items,     *)
(*   - RustFinalType conversions (rust_type.rs).                           *)
(* Strings of the program (error messages, file names, path segments) are  *)
(* opaque values compared by equality only; they are drawn from 1..N.      *)
(***************************************************************************)
EXTENDS Integers, Sequences, FiniteSets, TLC

(* Option<T>: None is the empty tuple, Some(x) the one-element tuple. *)
None == <<>>
Some(x) == <<x>>

(* ---- bounds ---- *)
MaxTargets == 2
MaxVersions == 1
MaxErrors == 2
MaxLedger == 2   \* longest ledger explored
MaxVariants == 3 \* CppItemData variants offered to add_cpp_data
MaxDecls == 1    \* distinct declarations per CppItemData variant
MaxDocs == 2     \* distinct non-structural (documentation) contents per declaration
MaxFiles == 2    \* include files the parser reports
MaxLocations == 1
MaxOtherSources == 2   \* non-parser source kinds offered to add_cpp_data
MaxItems == 2    \* longest cpp_items explored
MaxDepth == 2    \* levels of indirection put around a base type
MaxLifetimes == 1
MaxNesting == 3  \* constructors nested around a leaf type (is_unsafe_argument)
MaxSegments == 3 \* distinct path segments
MaxPathLen == 3  \* longest RustPath
MaxFfiItems == 2 \* FFI items checked in parallel
MaxThreads == 2  \* checker threads

VARIABLES
    items,        \* CppCheckerInfoList.items of one ledger
    checks_call,  \* the last call made on the ledger and its arguments
    checks_ret,   \* the value that call returned
    latest,       \* history: env -> None (never recorded) or Some(error of the most recent add)
    cpp_items,    \* Database.cpp_items
    environments, \* Database.environments
    db_call,      \* the last Database call and its arguments
    db_ret,       \* what that call returned
    triple,       \* the RustFinalType being converted
    conv_call,    \* the last conversion call: operation, argument and the triple it was called on
    conv_ret,     \* the Result that call returned
    successes,    \* history: number of conversion calls that returned Ok
    fn_input,     \* the arguments a pure function of rust_type.rs is applied to
    fn_ret,       \* the function applied last and the value it returned
    checks,       \* CppFfiItem.checks of every FFI item (parallel checking)
    thread_task,  \* per checker thread: the env it checks and the error its checks give
    thread_pc,    \* the FFI item each checker thread records next
    recorded      \* history: per FFI item and env, None or Some(the error recorded last)

ledger_vars == <<items, checks_call, checks_ret, latest>>
db_vars == <<cpp_items, environments, db_call, db_ret>>
conv_vars == <<triple, conv_call, conv_ret, successes>>
fn_vars == <<fn_input, fn_ret>>
par_vars == <<checks, thread_task, thread_pc, recorded>>
vars == <<ledger_vars, db_vars, conv_vars, fn_vars, par_vars>>

(***************************************************************************)
(* database.rs: CppCheckerEnv, CppCheckerInfo, CppCheckerInfoList          *)
(***************************************************************************)
CppCheckerEnv ==
    [target : 1..MaxTargets,
     cpp_library_version : {None} \cup {Some(v) : v \in 1..MaxVersions}]

OptionError == {None} \cup {Some(e) : e \in 1..MaxErrors}

CppCheckerInfo == [env : CppCheckerEnv, error : OptionError]

Added == [tag |-> "Added"]
Changed(old) == [tag |-> "Changed", old |-> old]
Unchanged == [tag |-> "Unchanged"]

(* self.items.iter_mut().find(|i| &i.env == env): index of the first entry *)
(* whose env equals env, 0 when there is none.                             *)
find_env(list, env) ==
    IF \E i \in 1..Len(list) : list[i].env = env
    THEN CHOOSE i \in 1..Len(list) :
            list[i].env = env /\ \A j \in 1..(i-1) : list[j].env # env
    ELSE 0

(* mutant: an existing entry keeps its stored error *)
add_keeps_old_error(list, env, error) ==
    LET idx == find_env(list, env) IN
    IF idx # 0
    THEN [items |-> list,
          result |-> IF list[idx].error = error THEN Unchanged
                     ELSE Changed(list[idx].error)]
    ELSE [items |-> Append(list, [env |-> env, error |-> error]),
          result |-> Added]

(* mutant: a differing error is appended as a second entry instead of replacing *)
add_appends_changed(list, env, error) ==
    LET idx == find_env(list, env) IN
    IF idx # 0 /\ list[idx].error = error
    THEN [items |-> list, result |-> Unchanged]
    ELSE [items |-> Append(list, [env |-> env, error |-> error]),
          result |-> IF idx # 0 THEN Changed(list[idx].error) ELSE Added]

(* mutant: Changed carries the new error instead of the stored one *)
add_reports_new_error(list, env, error) ==
    LET idx == find_env(list, env) IN
    IF idx # 0
    THEN [items |-> [list EXCEPT ![idx].error = error],
          result |-> IF list[idx].error = error THEN Unchanged
                     ELSE Changed(error)]
    ELSE [items |-> Append(list, [env |-> env, error |-> error]),
          result |-> Added]

(* CppCheckerInfoList::add: the list after the call and the returned value *)
add(list, env, error) ==
    LET idx == find_env(list, env) IN
    IF idx # 0
    THEN [items |-> [list EXCEPT ![idx].error = error],
          result |-> IF list[idx].error = error THEN Unchanged
                     ELSE Changed(list[idx].error)]
    ELSE [items |-> Append(list, [env |-> env, error |-> error]),
          result |-> Added]

(* CppCheckerInfoList::any_passed *)
any_passed(list) == \E i \in 1..Len(list) : list[i].error = None


Add(env, error) ==
    LET r == add(items, env, error) IN
    /\ Len(r.items) <= MaxLedger     \* exploration bound only
    /\ items' = r.items
    /\ checks_call' = [op |-> "add", env |-> env, error |-> error]
    /\ checks_ret' = r.result
    /\ latest' = [latest EXCEPT ![env] = Some(error)]
    /\ UNCHANGED <<db_vars, conv_vars, fn_vars, par_vars>>

AnyPassed ==
    /\ checks_call' = [op |-> "any_passed"]
    /\ checks_ret' = [tag |-> "bool", value |-> any_passed(items)]
    /\ UNCHANGED <<items, latest, db_vars, conv_vars, fn_vars, par_vars>>

LedgerNext ==
    \/ \E env \in CppCheckerEnv, error \in OptionError : Add(env, error)
    \/ AnyPassed


(***************************************************************************)
(* database.rs: DatabaseItemSource, CppItemData, CppDatabaseItem, Database *)
(***************************************************************************)
DatabaseItemSource ==
    [tag : {"CppParser"}, include_file : 1..MaxFiles, origin_location : 1..MaxLocations]
    \cup [tag : {"ImplicitDestructor", "TemplateInstantiation",
                 "NamespaceInfering", "QtSignalArguments"}]

(* DatabaseItemSource::is_parser *)
is_parser(source) == source.tag = "CppParser"

CppItemDataVariants ==
    {"Namespace", "Type", "EnumValue", "Function", "ClassField", "ClassBase",
     "QtSignalArguments"}

(* The order in which the bound MaxVariants admits the variants. *)
VariantOrder ==
    <<"Type", "Namespace", "Function", "ClassBase", "EnumValue", "ClassField",
      "QtSignalArguments">>

(* A payload is a variant and its value v.  v.decl stands for the fields   *)
(* that identify the declaration, v.doc for the remaining fields.          *)
CppItemData ==
    [variant : CppItemDataVariants, v : [decl : 1..MaxDecls, doc : 1..MaxDocs]]

(* CppTypeData::is_same, CppEnumValue::is_same, CppFunction::is_same and   *)
(* CppClassField::is_same live in cpp_data.rs / cpp_function.rs: the same  *)
(* declaration whatever the documentation attached to it.                  *)
declaration_is_same(v, v2) == v.decl = v2.decl

(* CppItemData::is_same *)
is_same(self, other) ==
    CASE self.variant = "Namespace" ->
            IF other.variant = "Namespace" THEN self.v = other.v ELSE FALSE
      [] self.variant = "Type" ->
            IF other.variant = "Type" THEN declaration_is_same(self.v, other.v) ELSE FALSE
      [] self.variant = "EnumValue" ->
            IF other.variant = "EnumValue" THEN declaration_is_same(self.v, other.v) ELSE FALSE
      [] self.variant = "Function" ->
            IF other.variant = "Function" THEN declaration_is_same(self.v, other.v) ELSE FALSE
      [] self.variant = "ClassField" ->
            IF other.variant = "ClassField" THEN declaration_is_same(self.v, other.v) ELSE FALSE
      [] self.variant = "ClassBase" ->
            IF other.variant = "ClassBase" THEN self.v = other.v ELSE FALSE
      [] self.variant = "QtSignalArguments" ->
            IF other.variant = "QtSignalArguments" THEN self.v = other.v ELSE FALSE

(* self.cpp_items.iter_mut().find(|item| item.cpp_data.is_same(&data)) *)
find_same(list, data) ==
    IF \E i \in 1..Len(list) : is_same(list[i].cpp_data, data)
    THEN CHOOSE i \in 1..Len(list) :
            /\ is_same(list[i].cpp_data, data)
            /\ \A j \in 1..(i-1) : ~is_same(list[j].cpp_data, data)
    ELSE 0

(* the CppDatabaseItem pushed by add_cpp_data *)
new_item(source, data) ==
    [cpp_data |-> data, source |-> source, ffi_items |-> <<>>,
     is_cpp_ffi_processed |-> FALSE, is_rust_processed |-> FALSE]

(* mutant: a duplicate insertion overwrites the stored payload *)
add_cpp_data_replaces_payload(list, source, data) ==
    LET idx == find_same(list, data) IN
    IF idx # 0
    THEN [cpp_items |->
            [list EXCEPT ![idx].cpp_data = data,
                         ![idx].source = IF is_parser(source) /\ ~is_parser(list[idx].source)
                                         THEN source ELSE list[idx].source],
          result |-> FALSE]
    ELSE [cpp_items |-> Append(list, new_item(source, data)), result |-> TRUE]

(* mutant: duplicates are detected with == instead of is_same *)
add_cpp_data_compares_equal(list, source, data) ==
    LET dup == {i \in 1..Len(list) : list[i].cpp_data = data} IN
    IF dup # {}
    THEN LET idx == CHOOSE i \in dup : \A j \in dup : i <= j IN
         [cpp_items |->
            [list EXCEPT ![idx].source = IF is_parser(source) /\ ~is_parser(list[idx].source)
                                         THEN source ELSE list[idx].source],
          result |-> FALSE]
    ELSE [cpp_items |-> Append(list, new_item(source, data)), result |-> TRUE]

(* mutant: only items inserted with an equal source count as duplicates *)
add_cpp_data_dedups_per_source(list, source, data) ==
    LET dup == {i \in 1..Len(list) :
                    is_same(list[i].cpp_data, data) /\ list[i].source = source} IN
    IF dup # {}
    THEN [cpp_items |-> list, result |-> FALSE]
    ELSE [cpp_items |-> Append(list, new_item(source, data)), result |-> TRUE]

(* mutant: a parser source replaces the stored source even when that one *)
(* is a parser source already                                            *)
add_cpp_data_parser_overwrites(list, source, data) ==
    LET idx == find_same(list, data) IN
    IF idx # 0
    THEN [cpp_items |->
            [list EXCEPT ![idx].source = IF is_parser(source)
                                         THEN source ELSE list[idx].source],
          result |-> FALSE]
    ELSE [cpp_items |-> Append(list, new_item(source, data)), result |-> TRUE]

(* Database::add_cpp_data: cpp_items after the call and the returned bool *)
add_cpp_data(list, source, data) ==
    LET idx == find_same(list, data) IN
    IF idx # 0
    THEN [cpp_items |->
            [list EXCEPT ![idx].source = IF is_parser(source) /\ ~is_parser(list[idx].source)
                                         THEN source ELSE list[idx].source],
          result |-> FALSE]
    ELSE [cpp_items |-> Append(list, new_item(source, data)), result |-> TRUE]


(* Sources handed to add_cpp_data: every parser source and the first       *)
(* MaxOtherSources of the other kinds.                                     *)
OtherSourceKinds ==
    <<"ImplicitDestructor", "TemplateInstantiation", "NamespaceInfering",
      "QtSignalArguments">>

SourcesOffered ==
    {s \in DatabaseItemSource :
        is_parser(s) \/ \E k \in 1..MaxOtherSources :
                            k <= Len(OtherSourceKinds) /\ s.tag = OtherSourceKinds[k]}

(* Payloads handed to add_cpp_data: those of the first MaxVariants variants. *)
DataOffered ==
    {d \in CppItemData :
        \E k \in 1..MaxVariants : k <= Len(VariantOrder) /\ d.variant = VariantOrder[k]}

AddCppData(source, data) ==
    LET r == add_cpp_data(cpp_items, source, data) IN
    /\ Len(r.cpp_items) <= MaxItems     \* exploration bound only
    /\ cpp_items' = r.cpp_items
    /\ db_call' = [op |-> "add_cpp_data", source |-> source, data |-> data]
    /\ db_ret' = [tag |-> "bool", value |-> r.result]
    /\ UNCHANGED <<environments, ledger_vars, conv_vars, fn_vars, par_vars>>

(* Database::clear *)
Clear ==
    /\ cpp_items' = <<>>
    /\ environments' = <<>>
    /\ db_call' = [op |-> "clear"]
    /\ db_ret' = [tag |-> "unit"]
    /\ UNCHANGED <<ledger_vars, conv_vars, fn_vars, par_vars>>

DbNext ==
    \/ \E source \in SourcesOffered, data \in DataOffered : AddCppData(source, data)
    \/ Clear


(***************************************************************************)
(* rust_type.rs: RustType, RustFinalType and the two conversions           *)
(***************************************************************************)
Unit == [tag |-> "Unit"]
Common(path, generic_arguments) ==
    [tag |-> "Common", path |-> path, generic_arguments |-> generic_arguments]
FunctionPointer(return_type, arguments) ==
    [tag |-> "FunctionPointer", return_type |-> return_type, arguments |-> arguments]
PointerLike(kind, is_const, target) ==
    [tag |-> "PointerLike", kind |-> kind, is_const |-> is_const, target |-> target]

(* RustPointerLikeTypeKind *)
Pointer == [tag |-> "Pointer"]
Reference(lifetime) == [tag |-> "Reference", lifetime |-> lifetime]

RustPointerLikeTypeKind ==
    {Pointer, Reference(None)} \cup {Reference(Some(l)) : l \in 1..MaxLifetimes}

(* RustPointerLikeTypeKind::is_pointer *)
is_pointer(kind) == kind.tag = "Pointer"

RustToFfiTypeConversion ==
    {"None", "RefToPtr", "OptionPtrWrapperToPtr", "ValueToPtr", "CppBoxToPtr",
     "PtrWrapperToPtr", "QFlagsToUInt"}

(* Result<T>: Ok(value) or the error raised by bail! *)
Ok(value) == [ok |-> TRUE, value |-> value]
Err(msg) == [ok |-> FALSE, error |-> msg]

(* mutant: the reference keeps the constness of the pointer *)
RustType_ptr_to_ref_keeps_const(self, is_const1) ==
    IF self.tag = "PointerLike"
    THEN IF ~is_pointer(self.kind)
         THEN Err("not a pointer type")
         ELSE Ok([self EXCEPT !.kind = Reference(None)])
    ELSE Err("not a PointerLike type")

(* RustType::ptr_to_ref *)
RustType_ptr_to_ref(self, is_const1) ==
    IF self.tag = "PointerLike"
    THEN IF ~is_pointer(self.kind)
         THEN Err("not a pointer type")
         ELSE Ok([self EXCEPT !.kind = Reference(None), !.is_const = is_const1])
    ELSE Err("not a PointerLike type")

(* RustType::set_const: self after the call and the Result it returned *)
RustType_set_const(self, value) ==
    IF self.tag = "PointerLike"
    THEN [self |-> [self EXCEPT !.is_const = value], result |-> Ok("unit")]
    ELSE [self |-> self, result |-> Err("not a PointerLike type")]

(* mutant: the conversion descriptor is left as it was *)
RustFinalType_ptr_to_ref_keeps_conversion(self, is_const1) ==
    LET a == RustType_ptr_to_ref(self.api_type, is_const1) IN
    IF ~a.ok THEN a
    ELSE LET r == [self EXCEPT !.api_type = a.value] IN
         IF r.api_to_ffi_conversion # "None"
         THEN Err("rust_api_to_ffi_conversion is not None")
         ELSE Ok(r)

(* RustFinalType::ptr_to_ref *)
RustFinalType_ptr_to_ref(self, is_const1) ==
    LET a == RustType_ptr_to_ref(self.api_type, is_const1) IN
    IF ~a.ok THEN a
    ELSE LET r == [self EXCEPT !.api_type = a.value] IN
         IF r.api_to_ffi_conversion # "None"
         THEN Err("rust_api_to_ffi_conversion is not None")
         ELSE Ok([r EXCEPT !.api_to_ffi_conversion = "RefToPtr"])

(* mutant: the check of the conversion descriptor is missing *)
RustFinalType_ptr_to_value_unchecked(self) ==
    IF self.api_type.tag = "PointerLike"
    THEN IF ~is_pointer(self.api_type.kind)
         THEN Err("not a pointer type")
         ELSE Ok([self EXCEPT !.api_type = self.api_type.target,
                              !.api_to_ffi_conversion = "ValueToPtr"])
    ELSE Err("not a RustType::Common")

(* mutant: a reference is dereferenced like a pointer *)
RustFinalType_ptr_to_value_any_kind(self) ==
    IF self.api_type.tag = "PointerLike"
    THEN LET r == [self EXCEPT !.api_type = self.api_type.target] IN
         IF r.api_to_ffi_conversion # "None"
         THEN Err("rust_api_to_ffi_conversion is not None")
         ELSE Ok([r EXCEPT !.api_to_ffi_conversion = "ValueToPtr"])
    ELSE Err("not a RustType::Common")

(* RustFinalType::ptr_to_value *)
RustFinalType_ptr_to_value(self) ==
    IF self.api_type.tag = "PointerLike"
    THEN IF ~is_pointer(self.api_type.kind)
         THEN Err("not a pointer type")
         ELSE LET r == [self EXCEPT !.api_type = self.api_type.target] IN
              IF r.api_to_ffi_conversion # "None"
              THEN Err("rust_api_to_ffi_conversion is not None")
              ELSE Ok([r EXCEPT !.api_to_ffi_conversion = "ValueToPtr"])
    ELSE Err("not a RustType::Common")

(* Types that are not an indirection. *)
BaseTypes ==
    {Unit,
     Common(<<"i32">>, None),
     Common(<<"qt_core", "QVector">>,
            Some(<<PointerLike(Pointer, TRUE, Common(<<"i32">>, None))>>)),
     FunctionPointer(Unit, <<PointerLike(Pointer, FALSE, Unit)>>)}

(* Base types under at most d levels of indirection. *)
RECURSIVE TypesUpTo(_)
TypesUpTo(d) ==
    IF d = 0 THEN BaseTypes
    ELSE BaseTypes \cup
         {PointerLike(kind, is_const, target) :
            kind \in RustPointerLikeTypeKind, is_const \in BOOLEAN,
            target \in TypesUpTo(d - 1)}

FfiTypes ==
    {Unit, Common(<<"i32">>, None),
     PointerLike(Pointer, TRUE, Common(<<"i32">>, None))}

RustFinalType ==
    [ffi_type : FfiTypes, api_type : TypesUpTo(MaxDepth),
     api_to_ffi_conversion : RustToFfiTypeConversion]

(* The caller goes on with the converted triple when the call returned Ok;  *)
(* successes counts the conversion calls that returned Ok.                  *)
PtrToRef(is_const1) ==
    LET res == RustFinalType_ptr_to_ref(triple, is_const1) IN
    /\ conv_call' = [op |-> "ptr_to_ref", is_const1 |-> is_const1, self |-> triple]
    /\ conv_ret' = res
    /\ triple' = IF res.ok THEN res.value ELSE triple
    /\ successes' = IF res.ok THEN successes + 1 ELSE successes
    /\ UNCHANGED <<ledger_vars, db_vars, fn_vars, par_vars>>

PtrToValue ==
    LET res == RustFinalType_ptr_to_value(triple) IN
    /\ conv_call' = [op |-> "ptr_to_value", self |-> triple]
    /\ conv_ret' = res
    /\ triple' = IF res.ok THEN res.value ELSE triple
    /\ successes' = IF res.ok THEN successes + 1 ELSE successes
    /\ UNCHANGED <<ledger_vars, db_vars, fn_vars, par_vars>>

(* api_type and ffi_type are pub fields: set_const called on either of them *)
(* changes the triple in place.                                             *)
SetConstApiType(value) ==
    LET r == RustType_set_const(triple.api_type, value) IN
    /\ conv_call' = [op |-> "set_const", field |-> "api_type", value |-> value,
                     self |-> triple]
    /\ conv_ret' = r.result
    /\ triple' = [triple EXCEPT !.api_type = r.self]
    /\ UNCHANGED <<successes, ledger_vars, db_vars, fn_vars, par_vars>>

SetConstFfiType(value) ==
    LET r == RustType_set_const(triple.ffi_type, value) IN
    /\ conv_call' = [op |-> "set_const", field |-> "ffi_type", value |-> value,
                     self |-> triple]
    /\ conv_ret' = r.result
    /\ triple' = [triple EXCEPT !.ffi_type = r.self]
    /\ UNCHANGED <<successes, ledger_vars, db_vars, fn_vars, par_vars>>

ConvNext ==
    \/ \E is_const1 \in BOOLEAN : PtrToRef(is_const1)
    \/ PtrToValue
    \/ \E value \in BOOLEAN : SetConstApiType(value)
    \/ \E value \in BOOLEAN : SetConstFfiType(value)

(***************************************************************************)
(* rust_type.rs: RustType::is_unsafe_argument                              *)
(***************************************************************************)
(* mutant: the return type of a function pointer is not looked at *)
RECURSIVE is_unsafe_argument_skips_return(_)
is_unsafe_argument_skips_return(self) ==
    CASE self.tag = "PointerLike" ->
            is_pointer(self.kind) \/ is_unsafe_argument_skips_return(self.target)
      [] self.tag = "Common" ->
            IF self.generic_arguments # None
            THEN \E i \in 1..Len(self.generic_arguments[1]) :
                    is_unsafe_argument_skips_return(self.generic_arguments[1][i])
            ELSE FALSE
      [] self.tag = "Unit" -> FALSE
      [] self.tag = "FunctionPointer" ->
            \E i \in 1..Len(self.arguments) :
                is_unsafe_argument_skips_return(self.arguments[i])

(* RustType::is_unsafe_argument *)
RECURSIVE is_unsafe_argument(_)
is_unsafe_argument(self) ==
    CASE self.tag = "PointerLike" ->
            is_pointer(self.kind) \/ is_unsafe_argument(self.target)
      [] self.tag = "Common" ->
            IF self.generic_arguments # None
            THEN \E i \in 1..Len(self.generic_arguments[1]) :
                    is_unsafe_argument(self.generic_arguments[1][i])
            ELSE FALSE
      [] self.tag = "Unit" -> FALSE
      [] self.tag = "FunctionPointer" ->
            \/ is_unsafe_argument(self.return_type)
            \/ \E i \in 1..Len(self.arguments) : is_unsafe_argument(self.arguments[i])

(* Leaves of the types is_unsafe_argument is applied to. *)
LeafTypes == {Unit, Common(<<"i32">>, None)}

(* Every way of putting one constructor around t: an indirection, a Named  *)
(* type with t among its arguments, a function pointer with t as return or *)
(* parameter type.                                                         *)
Wrap(t) ==
    LET b == Common(<<"i32">>, None) IN
    {PointerLike(Pointer, FALSE, t),
     PointerLike(Reference(None), TRUE, t),
     Common(<<"qt_core", "QVector">>, Some(<<t>>)),
     Common(<<"qt_core", "QMap">>, Some(<<t, b>>)),
     Common(<<"qt_core", "QMap">>, Some(<<b, t>>)),
     FunctionPointer(t, <<>>),
     FunctionPointer(Unit, <<t>>),
     FunctionPointer(Unit, <<b, t>>)}

RECURSIVE NestedTypes(_)
NestedTypes(d) ==
    IF d = 0 THEN LeafTypes
    ELSE LeafTypes \cup UNION {Wrap(t) : t \in NestedTypes(d - 1)}

IsUnsafeArgument ==
    /\ fn_input.op = "is_unsafe_argument"
    /\ fn_ret' = [op |-> "is_unsafe_argument", value |-> is_unsafe_argument(fn_input.self)]
    /\ UNCHANGED <<fn_input, ledger_vars, db_vars, conv_vars, par_vars>>

UnsafeNext == IsUnsafeArgument

(* Any type within the bounds, before is_unsafe_argument is applied. *)
UnsafeInit ==
    /\ items = <<>>
    /\ checks_call = [op |-> "none"]
    /\ checks_ret = [tag |-> "none"]
    /\ latest = [e \in CppCheckerEnv |-> None]
    /\ cpp_items = <<>>
    /\ environments = <<>>
    /\ db_call = [op |-> "none"]
    /\ db_ret = [tag |-> "none"]
    /\ triple = [ffi_type |-> Unit, api_type |-> Unit, api_to_ffi_conversion |-> "None"]
    /\ conv_call = [op |-> "none"]
    /\ conv_ret = [tag |-> "none"]
    /\ successes = 0
    /\ fn_input \in {[op |-> "is_unsafe_argument", self |-> t] : t \in NestedTypes(MaxNesting)}
    /\ fn_ret = [op |-> "none"]
    /\ checks = <<>>
    /\ thread_task = <<>>
    /\ thread_pc = <<>>
    /\ recorded = <<>>

SpecUnsafe == UnsafeInit /\ [][UnsafeNext]_vars

(***************************************************************************)
(* rust_type.rs: RustPath.  A path is the sequence of its parts; a part is *)
(* a string, written as the sequence of its characters.                    *)
(***************************************************************************)
(* The order in which the bound MaxSegments admits the segments. *)
SegmentOrder ==
    << <<"a">>, <<"A">>, <<"s", "t", "d">>, <<"a", "B">>, <<"b">> >>

Segments == {SegmentOrder[k] : k \in 1..(IF MaxSegments < Len(SegmentOrder)
                                          THEN MaxSegments ELSE Len(SegmentOrder))}

RECURSIVE PathsOfLen(_)
PathsOfLen(n) ==
    IF n = 1 THEN {<<x>> : x \in Segments}
    ELSE {Append(path, x) : path \in PathsOfLen(n - 1), x \in Segments}

(* RustPath::from_parts: every non-empty sequence of parts *)
RustPath == UNION {PathsOfLen(n) : n \in 1..MaxPathLen}

(* RustPath::join *)
join(self, name) == Append(self, name)

(* mutant: a path includes itself *)
includes_allows_equal(self, other) ==
    LET extra_modules_count == Len(other) - Len(self) IN
    extra_modules_count >= 0 /\ SubSeq(other, 1, Len(self)) = self

(* RustPath::includes *)
includes(self, other) ==
    LET extra_modules_count == Len(other) - Len(self) IN
    extra_modules_count > 0 /\ SubSeq(other, 1, Len(self)) = self

(* RustPath::includes_directly *)
includes_directly(self, other) ==
    LET extra_modules_count == Len(other) - Len(self) IN
    includes(self, other) /\ extra_modules_count = 1

(* RustPath::is_child_of *)
is_child_of(self, parent_path) == includes_directly(parent_path, self)

(* RustPath::parent *)
parent(self) ==
    IF Len(self) > 1 THEN Some(SubSeq(self, 1, Len(self) - 1)) ELSE None

Includes ==
    /\ fn_input.op = "path"
    /\ fn_ret' = [op |-> "includes", value |-> includes(fn_input.p, fn_input.q)]
    /\ UNCHANGED <<fn_input, ledger_vars, db_vars, conv_vars, par_vars>>

IncludesDirectly ==
    /\ fn_input.op = "path"
    /\ fn_ret' = [op |-> "includes_directly",
                  value |-> includes_directly(fn_input.p, fn_input.q)]
    /\ UNCHANGED <<fn_input, ledger_vars, db_vars, conv_vars, par_vars>>

IsChildOf ==
    /\ fn_input.op = "path"
    /\ fn_ret' = [op |-> "is_child_of", value |-> is_child_of(fn_input.q, fn_input.p)]
    /\ UNCHANGED <<fn_input, ledger_vars, db_vars, conv_vars, par_vars>>

Parent ==
    /\ fn_input.op = "path"
    /\ fn_ret' = [op |-> "parent", value |-> parent(fn_input.q)]
    /\ UNCHANGED <<fn_input, ledger_vars, db_vars, conv_vars, par_vars>>

Join ==
    /\ fn_input.op = "path"
    /\ fn_ret' = [op |-> "join", value |-> join(fn_input.p, fn_input.s)]
    /\ UNCHANGED <<fn_input, ledger_vars, db_vars, conv_vars, par_vars>>

PathNext ==
    \/ Includes
    \/ IncludesDirectly
    \/ IsChildOf
    \/ Parent
    \/ Join

(* Two paths p, q and a segment s within the bounds. *)
PathInit ==
    /\ items = <<>>
    /\ checks_call = [op |-> "none"]
    /\ checks_ret = [tag |-> "none"]
    /\ latest = [e \in CppCheckerEnv |-> None]
    /\ cpp_items = <<>>
    /\ environments = <<>>
    /\ db_call = [op |-> "none"]
    /\ db_ret = [tag |-> "none"]
    /\ triple = [ffi_type |-> Unit, api_type |-> Unit, api_to_ffi_conversion |-> "None"]
    /\ conv_call = [op |-> "none"]
    /\ conv_ret = [tag |-> "none"]
    /\ successes = 0
    /\ fn_input \in [op : {"path"}, p : RustPath, q : RustPath, s : Segments]
    /\ fn_ret = [op |-> "none"]
    /\ checks = <<>>
    /\ thread_task = <<>>
    /\ thread_pc = <<>>
    /\ recorded = <<>>

SpecPath == PathInit /\ [][PathNext]_vars

(***************************************************************************)
(* database.rs: CppFfiItem.checks under parallel checking.  Every thread   *)
(* checks the FFI items in turn against its environment and records the    *)
(* outcome with CppCheckerInfoList::add; a call of add is one atomic step. *)
(***************************************************************************)
FfiItemIds == 1..MaxFfiItems
Threads == 1..MaxThreads

(* The (env, error) pairs handed to the checker threads: every target with *)
(* no library version, with every error.                                   *)
ThreadTasks == {info \in CppCheckerInfo : info.env.cpp_library_version = None}

(* CppFfiItem::from_function / from_qt_slot_wrapper: checks is empty *)
ParInit ==
    /\ items = <<>>
    /\ checks_call = [op |-> "none"]
    /\ checks_ret = [tag |-> "none"]
    /\ latest = [e \in CppCheckerEnv |-> None]
    /\ cpp_items = <<>>
    /\ environments = <<>>
    /\ db_call = [op |-> "none"]
    /\ db_ret = [tag |-> "none"]
    /\ triple = [ffi_type |-> Unit, api_type |-> Unit, api_to_ffi_conversion |-> "None"]
    /\ conv_call = [op |-> "none"]
    /\ conv_ret = [tag |-> "none"]
    /\ successes = 0
    /\ fn_input = [op |-> "none"]
    /\ fn_ret = [op |-> "none"]
    /\ checks = [f \in FfiItemIds |-> <<>>]
    /\ thread_task \in [Threads -> ThreadTasks]
    /\ thread_pc = [t \in Threads |-> 1]
    /\ recorded = [f \in FfiItemIds |-> [e \in CppCheckerEnv |-> None]]

(* Thread t records the outcome for the FFI item it is at. *)
Record(t) ==
    LET f == thread_pc[t]
        env == thread_task[t].env
        error == thread_task[t].error
    IN  /\ f \in FfiItemIds
        /\ checks' = [checks EXCEPT ![f] = add(checks[f], env, error).items]
        /\ thread_pc' = [thread_pc EXCEPT ![t] = f + 1]
        /\ recorded' = [recorded EXCEPT ![f][env] = Some(error)]
        /\ UNCHANGED <<thread_task, ledger_vars, db_vars, conv_vars, fn_vars>>

ParNext == \E t \in Threads : Record(t)

SpecPar == ParInit /\ [][ParNext]_vars

(***************************************************************************)
(* rust_type.rs: RustType::caption.  Strings are sequences of characters.  *)
(***************************************************************************)
UpperCase == {"A", "B"}

ToLower(c) == CASE c = "A" -> "a" [] c = "B" -> "b" [] OTHER -> c

(* CaseOperations::to_snake_case (ritual_common::string_utils): the words  *)
(* of the string, a new word starting at each upper-case letter, in lower  *)
(* case and joined with "_".                                               *)
RECURSIVE snake_from(_, _)
snake_from(str, i) ==
    IF i > Len(str) THEN <<>>
    ELSE (IF str[i] \in UpperCase
          THEN (IF i > 1 THEN <<"_", ToLower(str[i])>> ELSE <<ToLower(str[i])>>)
          ELSE <<str[i]>>) \o snake_from(str, i + 1)

to_snake_case(str) == snake_from(str, 1)

(* Itertools::join / [String]::join *)
RECURSIVE join_str(_, _)
join_str(strs, sep) ==
    IF strs = <<>> THEN <<>>
    ELSE IF Len(strs) = 1 THEN strs[1]
    ELSE strs[1] \o sep \o join_str(Tail(strs), sep)

(* panic!(msg) / Option::expect(msg) on None: the call does not return *)
Panic(msg) == [panic |-> msg]

(* RustPath::crate_name *)
crate_name(self) ==
    IF Len(self) = 0 THEN Panic("RustPath can't be empty")
    ELSE IF Len(self) > 1 THEN Some(self[1]) ELSE None

(* RustPath::last *)
last(self) ==
    IF Len(self) = 0 THEN Panic("RustPath can't be empty")
    ELSE self[Len(self)]

(* mutant: after a mismatch the rest of the context is still matched *)
RECURSIVE good_parts_keeps_context(_, _, _)
good_parts_keeps_context(parts, remaining_context, good_parts) ==
    IF parts = <<>> THEN good_parts
    ELSE IF remaining_context # <<>> /\ parts[1] = remaining_context[1]
    THEN good_parts_keeps_context(Tail(parts), Tail(remaining_context), good_parts)
    ELSE LET snake_part == to_snake_case(parts[1]) IN
         good_parts_keeps_context(Tail(parts), remaining_context,
            IF good_parts = <<>> \/ good_parts[Len(good_parts)] # snake_part
            THEN Append(good_parts, snake_part) ELSE good_parts)

(* the `for part in parts` loop of caption: good_parts after the loop *)
RECURSIVE caption_good_parts(_, _, _)
caption_good_parts(parts, remaining_context, good_parts) ==
    IF parts = <<>> THEN good_parts
    ELSE IF remaining_context # <<>> /\ parts[1] = remaining_context[1]
    THEN caption_good_parts(Tail(parts), Tail(remaining_context), good_parts)
    ELSE LET snake_part == to_snake_case(parts[1]) IN
         caption_good_parts(Tail(parts), <<>>,
            IF good_parts = <<>> \/ good_parts[Len(good_parts)] # snake_part
            THEN Append(good_parts, snake_part) ELSE good_parts)

(* RustType::caption; the Result it returns is always Ok, the string is    *)
(* modelled.                                                               *)
RECURSIVE caption(_, _)
caption(self, context) ==
    CASE self.tag = "Unit" -> <<"u", "n", "i", "t">>
      [] self.tag = "PointerLike" ->
            LET const_text == IF self.is_const
                              THEN <<"_", "c", "o", "n", "s", "t">> ELSE <<>>
                kind_text == IF self.kind.tag = "Pointer"
                             THEN <<"_", "p", "t", "r">> ELSE <<"_", "r", "e", "f">>
            IN  caption(self.target, context) \o const_text \o kind_text
      [] self.tag = "Common" ->
            LET path == self.path
                name0 ==
                    IF Len(path) = 1 THEN to_snake_case(path[1])
                    ELSE IF crate_name(path) = Some(<<"s", "t", "d">>)
                    THEN to_snake_case(last(path))
                    ELSE LET good_parts == caption_good_parts(path, context, <<>>) IN
                         IF good_parts = <<>> THEN last(path)
                         ELSE join_str(good_parts, <<"_">>)
            IN  IF self.generic_arguments # None
                THEN LET args == self.generic_arguments[1] IN
                     name0 \o <<"_">>
                        \o join_str([i \in 1..Len(args) |-> caption(args[i], context)],
                                    <<"_">>)
                ELSE name0
      [] self.tag = "FunctionPointer" -> <<"f", "n">>

(* Types caption is applied to: Unit, a function pointer, Named types over *)
(* every path without and with type arguments, and one indirection around  *)
(* each of them.                                                           *)
CaptionBaseTypes ==
    {Unit, FunctionPointer(Unit, <<Common(<<<<"a">>>>, None)>>)}
    \cup {Common(path, None) : path \in RustPath}
    \cup {Common(path, Some(<<Unit, PointerLike(Pointer, TRUE, Common(<<<<"A">>>>, None))>>)) :
            path \in RustPath}

CaptionTypes ==
    CaptionBaseTypes
    \cup {PointerLike(kind, is_const, target) :
            kind \in {Pointer, Reference(None)}, is_const \in BOOLEAN,
            target \in CaptionBaseTypes}

Caption ==
    /\ fn_input.op = "caption"
    /\ fn_ret' = [op |-> "caption", value |-> Ok(caption(fn_input.self, fn_input.context))]
    /\ UNCHANGED <<fn_input, ledger_vars, db_vars, conv_vars, par_vars>>

CaptionNext == Caption

(* A type and a context path within the bounds. *)
CaptionInit ==
    /\ items = <<>>
    /\ checks_call = [op |-> "none"]
    /\ checks_ret = [tag |-> "none"]
    /\ latest = [e \in CppCheckerEnv |-> None]
    /\ cpp_items = <<>>
    /\ environments = <<>>
    /\ db_call = [op |-> "none"]
    /\ db_ret = [tag |-> "none"]
    /\ triple = [ffi_type |-> Unit, api_type |-> Unit, api_to_ffi_conversion |-> "None"]
    /\ conv_call = [op |-> "none"]
    /\ conv_ret = [tag |-> "none"]
    /\ successes = 0
    /\ fn_input \in [op : {"caption"}, self : CaptionTypes, context : RustPath]
    /\ fn_ret = [op |-> "none"]
    /\ checks = <<>>
    /\ thread_task = <<>>
    /\ thread_pc = <<>>
    /\ recorded = <<>>

SpecCaption == CaptionInit /\ [][CaptionNext]_vars

(***************************************************************************)
(* Specifications: one per component, the other components stay idle.      *)
(***************************************************************************)
(* CppCheckerInfoList::default(), Database::empty() and a triple that no    *)
(* conversion is applied to.                                               *)
LedgerInit ==
    /\ items = <<>>
    /\ checks_call = [op |-> "none"]
    /\ checks_ret = [tag |-> "none"]
    /\ latest = [e \in CppCheckerEnv |-> None]
    /\ cpp_items = <<>>
    /\ environments = <<>>
    /\ db_call = [op |-> "none"]
    /\ db_ret = [tag |-> "none"]
    /\ triple = [ffi_type |-> Unit, api_type |-> Unit, api_to_ffi_conversion |-> "None"]
    /\ conv_call = [op |-> "none"]
    /\ conv_ret = [tag |-> "none"]
    /\ successes = 0
    /\ fn_input = [op |-> "none"]
    /\ fn_ret = [op |-> "none"]
    /\ checks = <<>>
    /\ thread_task = <<>>
    /\ thread_pc = <<>>
    /\ recorded = <<>>

DbInit ==
    /\ items = <<>>
    /\ checks_call = [op |-> "none"]
    /\ checks_ret = [tag |-> "none"]
    /\ latest = [e \in CppCheckerEnv |-> None]
    /\ cpp_items = <<>>
    /\ environments = <<>>
    /\ db_call = [op |-> "none"]
    /\ db_ret = [tag |-> "none"]
    /\ triple = [ffi_type |-> Unit, api_type |-> Unit, api_to_ffi_conversion |-> "None"]
    /\ conv_call = [op |-> "none"]
    /\ conv_ret = [tag |-> "none"]
    /\ successes = 0
    /\ fn_input = [op |-> "none"]
    /\ fn_ret = [op |-> "none"]
    /\ checks = <<>>
    /\ thread_task = <<>>
    /\ thread_pc = <<>>
    /\ recorded = <<>>

(* Any RustFinalType within the bounds, before any conversion call. *)
ConvInit ==
    /\ items = <<>>
    /\ checks_call = [op |-> "none"]
    /\ checks_ret = [tag |-> "none"]
    /\ latest = [e \in CppCheckerEnv |-> None]
    /\ cpp_items = <<>>
    /\ environments = <<>>
    /\ db_call = [op |-> "none"]
    /\ db_ret = [tag |-> "none"]
    /\ triple \in RustFinalType
    /\ conv_call = [op |-> "none"]
    /\ conv_ret = [tag |-> "none"]
    /\ successes = 0
    /\ fn_input = [op |-> "none"]
    /\ fn_ret = [op |-> "none"]
    /\ checks = <<>>
    /\ thread_task = <<>>
    /\ thread_pc = <<>>
    /\ recorded = <<>>

SpecLedger == LedgerInit /\ [][LedgerNext]_vars
SpecDb == DbInit /\ [][DbNext]_vars
SpecConv == ConvInit /\ [][ConvNext]_vars

(* Positions of the ledger that hold an entry for env. *)
EntriesFor(list, env) == {i \in 1..Len(list) : list[i].env = env}

(* C1: every add(env, error) step is classified by the ledger before the    *)
(* call: no entry for env -> (env, error) is appended last and Added is     *)
(* returned; an entry with an equal error -> Unchanged and the same ledger; *)
(* an entry with a different error -> Changed carrying the stored error,    *)
(* the entry now holds the new error and all other entries are as before.   *)
C1_AddClassifies ==
    [][checks_call'.op = "add" =>
        LET env == checks_call'.env
            error == checks_call'.error
            at == EntriesFor(items, env)
        IN  /\ at = {} =>
                /\ checks_ret' = Added
                /\ items' = items \o <<[env |-> env, error |-> error]>>
            /\ \A i \in at :
                IF items[i].error = error
                THEN /\ checks_ret'.tag = "Unchanged"
                     /\ items' = items
                ELSE /\ checks_ret'.tag = "Changed"
                     /\ checks_ret'.old = items[i].error
                     /\ Len(items') = Len(items)
                     /\ items'[i] = [env |-> env, error |-> error]
                     /\ \A j \in 1..Len(items) : j # i => items'[j] = items[j]
    ]_vars

C1_Witness ==
    /\ checks_call.op = "add"
    /\ checks_ret.tag = "Changed"
    /\ Len(items) >= 2
    /\ items[1].env = checks_call.env
    /\ items[1].error = checks_call.error

(* C2: the ledger never holds two entries with equal env, and its length is *)
(* the number of distinct environments recorded so far.                     *)
C2_OneEntryPerEnv ==
    /\ \A i, j \in 1..Len(items) : i # j => items[i].env # items[j].env
    /\ Len(items) = Cardinality({e \in CppCheckerEnv : latest[e] # None})

C2_Witness ==
    /\ Len(items) >= 2
    /\ checks_call.op = "add"
    /\ checks_ret.tag \in {"Changed", "Unchanged"}

(* C3: any_passed() is true exactly when, for some environment, the most    *)
(* recent add for it carried no error; it is false on the empty ledger, and *)
(* a pass overwritten by an error for the same environment does not count.  *)
C3_AnyPassedIffLatestPass ==
    LET passed_latest == \E e \in CppCheckerEnv : latest[e] = Some(None) IN
    /\ any_passed(items) <=> passed_latest
    /\ items = <<>> => ~any_passed(items)
    /\ checks_call.op = "any_passed" => checks_ret.value = passed_latest

C3_Witness ==
    /\ checks_call.op = "any_passed"
    /\ checks_ret.value = FALSE
    /\ Len(items) >= 2

(* Positions of cpp_items whose payload is the same declaration as data. *)
SameAs(list, data) == {i \in 1..Len(list) : is_same(list[i].cpp_data, data)}

(* The original statement of C4: a call of add_cpp_data with a payload that *)
(* is_same as a stored item, with any source, leaves every stored item      *)
(* exactly as it was.                                                       *)
C4_DuplicateLeavesItemsAsTheyWere ==
    [][(db_call'.op = "add_cpp_data" /\ SameAs(cpp_items, db_call'.data) # {})
            => cpp_items' = cpp_items
    ]_vars

(* C4 (amended): a call of add_cpp_data with a payload that is_same as a    *)
(* stored item returns false (no error), keeps the number and order of the  *)
(* items, and keeps the payload, FFI list and processed flags of every      *)
(* item; the source of every item is kept as well, except that the matching *)
(* item takes the source argument when the argument is parser-sourced and   *)
(* the stored source is not.                                                *)
C4_DuplicateKeepsItemsUpToParserSource ==
    [][(db_call'.op = "add_cpp_data" /\ SameAs(cpp_items, db_call'.data) # {})
            => LET source == db_call'.source
                   data == db_call'.data
               IN  /\ db_ret' = [tag |-> "bool", value |-> FALSE]
                   /\ Len(cpp_items') = Len(cpp_items)
                   /\ \A i \in 1..Len(cpp_items) :
                        IF i \in SameAs(cpp_items, data)
                           /\ is_parser(source) /\ ~is_parser(cpp_items[i].source)
                        THEN cpp_items'[i] = [cpp_items[i] EXCEPT !.source = source]
                        ELSE cpp_items'[i] = cpp_items[i]
    ]_vars

(* A duplicate with a parser source and another documentation was refused:  *)
(* the stored item kept its payload and carries the parser source.          *)
C4_Witness ==
    /\ db_call.op = "add_cpp_data"
    /\ db_ret = [tag |-> "bool", value |-> FALSE]
    /\ is_parser(db_call.source)
    /\ Len(cpp_items) >= 2
    /\ is_same(cpp_items[2].cpp_data, db_call.data)
    /\ cpp_items[2].cpp_data # db_call.data
    /\ cpp_items[2].source = db_call.source

(* C5: add_cpp_data returns true exactly when no stored item is_same as the *)
(* payload; then the new item (payload, source, no FFI items, both flags    *)
(* false) is appended after the unchanged existing items; otherwise it      *)
(* returns false and the length is unchanged.                               *)
C5_InsertIffNoDuplicate ==
    [][db_call'.op = "add_cpp_data" =>
        LET source == db_call'.source
            data == db_call'.data
        IN  IF SameAs(cpp_items, data) = {}
            THEN /\ db_ret' = [tag |-> "bool", value |-> TRUE]
                 /\ Len(cpp_items') = Len(cpp_items) + 1
                 /\ \A i \in 1..Len(cpp_items) : cpp_items'[i] = cpp_items[i]
                 /\ cpp_items'[Len(cpp_items')] =
                        [cpp_data |-> data, source |-> source, ffi_items |-> <<>>,
                         is_cpp_ffi_processed |-> FALSE, is_rust_processed |-> FALSE]
            ELSE /\ db_ret' = [tag |-> "bool", value |-> FALSE]
                 /\ Len(cpp_items') = Len(cpp_items)
    ]_vars

C5_Witness ==
    /\ db_call.op = "add_cpp_data"
    /\ db_ret = [tag |-> "bool", value |-> TRUE]
    /\ Len(cpp_items) >= 2
    /\ cpp_items[1].cpp_data.variant = cpp_items[2].cpp_data.variant
    /\ cpp_items[2].cpp_data = db_call.data

(* C6: no two distinct stored native items are the same declaration,        *)
(* whatever the sources they were inserted with.                            *)
C6_NoTwoSameDeclarations ==
    \A i, j \in 1..Len(cpp_items) :
        i # j => ~is_same(cpp_items[i].cpp_data, cpp_items[j].cpp_data)

(* A duplicate offered with another source than the stored one was refused. *)
C6_Witness ==
    /\ db_call.op = "add_cpp_data"
    /\ db_ret = [tag |-> "bool", value |-> FALSE]
    /\ Len(cpp_items) >= 2
    /\ \E i \in 1..Len(cpp_items) :
            /\ is_same(cpp_items[i].cpp_data, db_call.data)
            /\ cpp_items[i].source # db_call.source

(* Whether a type is a raw-pointer indirection. *)
IsRawPointer(t) == t.tag = "PointerLike" /\ t.kind.tag = "Pointer"

ConvCalled == conv_call.op \in {"ptr_to_ref", "ptr_to_value"}

(* C7: on a triple whose descriptor is not None, ptr_to_ref and             *)
(* ptr_to_value fail whatever the api_type is, and the triple stays as it   *)
(* was; so at most one call of a sequence of conversions succeeds.          *)
C7_NoReapplication ==
    /\ (ConvCalled /\ conv_call.self.api_to_ffi_conversion # "None")
            => (~conv_ret.ok /\ triple = conv_call.self)
    /\ successes <= 1

C7_Witness ==
    /\ conv_call.op = "ptr_to_value"
    /\ conv_call.self.api_to_ffi_conversion = "ValueToPtr"
    /\ IsRawPointer(conv_call.self.api_type)
    /\ successes = 1
    /\ ~conv_ret.ok

(* C8: a conversion never changes ffi_type; a successful one changes both   *)
(* api_type and the descriptor, a failed one changes neither.               *)
C8_FfiTypeFixedApiAndDescriptorTogether ==
    ConvCalled =>
        /\ triple.ffi_type = conv_call.self.ffi_type
        /\ conv_ret.ok =>
            /\ conv_ret.value.ffi_type = conv_call.self.ffi_type
            /\ conv_ret.value.api_type # conv_call.self.api_type
            /\ conv_ret.value.api_to_ffi_conversion # conv_call.self.api_to_ffi_conversion
        /\ ~conv_ret.ok =>
            /\ triple.api_type = conv_call.self.api_type
            /\ triple.api_to_ffi_conversion = conv_call.self.api_to_ffi_conversion
        /\ (triple.api_type # conv_call.self.api_type)
            <=> (triple.api_to_ffi_conversion # conv_call.self.api_to_ffi_conversion)

C8_Witness ==
    /\ conv_call.op = "ptr_to_ref"
    /\ conv_ret.ok
    /\ triple.ffi_type # conv_call.self.api_type
    /\ triple.api_to_ffi_conversion = "RefToPtr"

(* C9: ptr_to_ref(make_const) succeeds exactly when the descriptor is None  *)
(* and api_type is a raw pointer; the result's api_type is a reference      *)
(* without lifetime, with constness make_const, to the same pointee, and    *)
(* the descriptor is RefToPtr.                                              *)
C9_PtrToRef ==
    conv_call.op = "ptr_to_ref" =>
        /\ conv_ret.ok <=>
            (conv_call.self.api_to_ffi_conversion = "None"
                /\ IsRawPointer(conv_call.self.api_type))
        /\ conv_ret.ok =>
            /\ conv_ret.value.api_type.tag = "PointerLike"
            /\ conv_ret.value.api_type.kind = [tag |-> "Reference", lifetime |-> <<>>]
            /\ conv_ret.value.api_type.is_const = conv_call.is_const1
            /\ conv_ret.value.api_type.target = conv_call.self.api_type.target
            /\ conv_ret.value.api_to_ffi_conversion = "RefToPtr"

C9_Witness ==
    /\ conv_call.op = "ptr_to_ref"
    /\ conv_ret.ok
    /\ conv_call.self.api_type.is_const # conv_call.is_const1
    /\ conv_call.self.api_type.target.tag = "PointerLike"

(* C10: ptr_to_value succeeds exactly when the descriptor is None and       *)
(* api_type is a raw pointer; the result's api_type is the pointee of the   *)
(* previous api_type, inner indirections included, and the descriptor is    *)
(* ValueToPtr.                                                              *)
C10_PtrToValue ==
    conv_call.op = "ptr_to_value" =>
        /\ conv_ret.ok <=>
            (conv_call.self.api_to_ffi_conversion = "None"
                /\ IsRawPointer(conv_call.self.api_type))
        /\ conv_ret.ok =>
            /\ conv_ret.value.api_type = conv_call.self.api_type.target
            /\ conv_ret.value.api_to_ffi_conversion = "ValueToPtr"

C10_Witness ==
    /\ conv_call.op = "ptr_to_value"
    /\ conv_ret.ok
    /\ conv_ret.value.api_type.tag = "PointerLike"
    /\ conv_ret.value.api_type.kind.tag = "Pointer"
(* All types occurring in t: t itself, pointees, type arguments, return and *)
(* parameter types, at any depth.                                           *)
RECURSIVE TypesWithin(_)
TypesWithin(t) ==
    {t} \cup
    (IF t.tag = "PointerLike" THEN TypesWithin(t.target)
     ELSE IF t.tag = "Common" /\ t.generic_arguments # None
     THEN UNION {TypesWithin(t.generic_arguments[1][i]) :
                    i \in 1..Len(t.generic_arguments[1])}
     ELSE IF t.tag = "FunctionPointer"
     THEN TypesWithin(t.return_type)
          \cup UNION {TypesWithin(t.arguments[i]) : i \in 1..Len(t.arguments)}
     ELSE {})

(* C11: is_unsafe_argument is true exactly when a raw-pointer indirection   *)
(* occurs somewhere in the type; a borrow indirection is unsafe exactly     *)
(* when its pointee is.                                                     *)
C11_UnsafeIffRawPointerWithin ==
    LET t == fn_input.self
        has_raw == \E u \in TypesWithin(t) : IsRawPointer(u)
    IN  /\ is_unsafe_argument(t) <=> has_raw
        /\ fn_ret.op = "is_unsafe_argument" => (fn_ret.value <=> has_raw)
        /\ (t.tag = "PointerLike" /\ t.kind.tag = "Reference")
                => (is_unsafe_argument(t) <=> is_unsafe_argument(t.target))

(* A borrow of a Named type is found unsafe for a raw pointer that is the   *)
(* second of its type arguments.                                            *)
C11_Witness ==
    /\ fn_ret.op = "is_unsafe_argument"
    /\ fn_ret.value
    /\ fn_input.self.tag = "PointerLike"
    /\ fn_input.self.kind.tag = "Reference"
    /\ fn_input.self.target.tag = "Common"
    /\ fn_input.self.target.generic_arguments # None
    /\ Len(fn_input.self.target.generic_arguments[1]) = 2
    /\ ~IsRawPointer(fn_input.self.target.generic_arguments[1][1])
    /\ IsRawPointer(fn_input.self.target.generic_arguments[1][2])

(* The paths obtained from q by applying parent() one or more times. *)
RECURSIVE ParentChain(_)
ParentChain(q) ==
    IF parent(q) = None THEN {}
    ELSE {parent(q)[1]} \cup ParentChain(parent(q)[1])

StrictPrefix(p, q) == Len(q) > Len(p) /\ \A i \in 1..Len(p) : q[i] = p[i]

(* C12: p.includes(q) iff p is a strict prefix of q (no path includes       *)
(* itself); p.includes_directly(q) iff q.parent() is p; p.includes(q) iff p *)
(* is reached from q by one or more parent(); parent() is absent exactly at *)
(* length 1; join(p, s).parent() is p.                                      *)
C12_AncestryAgreesWithParentAndJoin ==
    LET p == fn_input.p
        q == fn_input.q
        s == fn_input.s
    IN  /\ includes(p, q) <=> StrictPrefix(p, q)
        /\ ~includes(p, p)
        /\ includes_directly(p, q) <=> parent(q) = Some(p)
        /\ is_child_of(q, p) <=> parent(q) = Some(p)
        /\ includes(p, q) <=> p \in ParentChain(q)
        /\ parent(p) = None <=> Len(p) = 1
        /\ parent(join(p, s)) = Some(p)
        /\ fn_ret.op = "includes" => (fn_ret.value <=> StrictPrefix(p, q))
        /\ fn_ret.op = "includes_directly" =>
                (fn_ret.value <=> (StrictPrefix(p, q) /\ Len(q) = Len(p) + 1))
        /\ fn_ret.op = "parent" => (fn_ret.value = None <=> Len(q) = 1)
        /\ fn_ret.op = "join" => /\ Len(fn_ret.value) = Len(p) + 1
                                 /\ StrictPrefix(p, fn_ret.value)
                                 /\ fn_ret.value[Len(p) + 1] = s

(* includes answered true for an ancestor that is not the direct parent. *)
C12_Witness ==
    /\ fn_ret.op = "includes"
    /\ fn_ret.value
    /\ Len(fn_input.q) >= Len(fn_input.p) + 2
    /\ ~includes_directly(fn_input.p, fn_input.q)
AllRecorded == \A t \in Threads : thread_pc[t] \notin FfiItemIds

DistinctEnvs ==
    \A t, u \in Threads : t # u => thread_task[t].env # thread_task[u].env

EntrySet(list) == {list[i] : i \in 1..Len(list)}

(* Once every call has completed: one entry per recorded env, holding the   *)
(* error recorded last; with distinct envs the entries are the threads'     *)
(* (env, error) pairs, whatever the interleaving was.                       *)
LedgersComplete ==
    AllRecorded =>
        \A f \in FfiItemIds :
            /\ \A i, j \in 1..Len(checks[f]) :
                    i # j => checks[f][i].env # checks[f][j].env
            /\ {checks[f][i].env : i \in 1..Len(checks[f])}
                    = {e \in CppCheckerEnv : recorded[f][e] # None}
            /\ \A i \in 1..Len(checks[f]) :
                    recorded[f][checks[f][i].env] = Some(checks[f][i].error)
            /\ DistinctEnvs =>
                    EntrySet(checks[f]) = {thread_task[t] : t \in Threads}

(* C13: with atomic add calls, in every interleaving a record on one item's *)
(* ledger leaves the other items' ledgers as they were, and once all calls  *)
(* have completed every ledger has exactly one entry per recorded env with  *)
(* the error recorded last; for calls with distinct envs the set of entries *)
(* does not depend on the interleaving.                                     *)
C13_ParallelRecords ==
    [][/\ \A t \in Threads :
            thread_pc'[t] # thread_pc[t] =>
                \A f \in FfiItemIds : f # thread_pc[t] => checks'[f] = checks[f]
       /\ LedgersComplete'
    ]_vars

(* All calls completed, the threads had distinct envs, and two ledgers hold *)
(* the same entries in different orders.                                    *)
C13_Witness ==
    /\ AllRecorded
    /\ DistinctEnvs
    /\ Len(checks[1]) >= 2
    /\ checks[1][1] # checks[2][1]
    /\ EntrySet(checks[1]) = EntrySet(checks[2])
(* Length of the longest leading run of path that matches context segment  *)
(* by segment.                                                             *)
MatchedRun(path, context) ==
    LET m == IF Len(path) < Len(context) THEN Len(path) ELSE Len(context) IN
    CHOOSE k \in 0..m :
        /\ \A i \in 1..k : path[i] = context[i]
        /\ k < m => path[k + 1] # context[k + 1]

(* seq without the elements equal to their predecessor. *)
RECURSIVE Collapsed(_)
Collapsed(seq) ==
    IF Len(seq) <= 1 THEN seq
    ELSE LET front == Collapsed(SubSeq(seq, 1, Len(seq) - 1)) IN
         IF seq[Len(seq)] = seq[Len(seq) - 1] THEN front
         ELSE Append(front, seq[Len(seq)])

RECURSIVE Underscored(_)
Underscored(strs) ==
    IF Len(strs) = 0 THEN <<>>
    ELSE IF Len(strs) = 1 THEN strs[1]
    ELSE Underscored(SubSeq(strs, 1, Len(strs) - 1)) \o <<"_">> \o strs[Len(strs)]

(* The label of a path of several segments outside std: the segments after *)
(* the matched run, in snake case, repeats collapsed, joined with "_"; the *)
(* bare last segment when the run is the whole path.                       *)
PathLabel(path, context) ==
    LET k == MatchedRun(path, context)
        kept == [i \in 1..(Len(path) - k) |-> to_snake_case(path[k + i])]
    IN  IF k = Len(path) THEN path[Len(path)]
        ELSE Underscored(Collapsed(kept))

(* The captions of the type arguments, when there are any, follow the label. *)
ArgumentsLabel(t, context) ==
    IF t.generic_arguments = None THEN <<>>
    ELSE <<"_">> \o Underscored([i \in 1..Len(t.generic_arguments[1]) |->
                                    caption(t.generic_arguments[1][i], context)])

ExpectedCaption(t, context) ==
    CASE t.tag = "Common" /\ Len(t.path) > 1 /\ t.path[1] # <<"s", "t", "d">> ->
            PathLabel(t.path, context) \o ArgumentsLabel(t, context)
      [] t.tag = "PointerLike" ->
            caption(t.target, context)
                \o (IF t.is_const THEN <<"_", "c", "o", "n", "s", "t">> ELSE <<>>)
                \o (IF IsRawPointer(t) THEN <<"_", "p", "t", "r">>
                    ELSE <<"_", "r", "e", "f">>)
      [] t.tag = "FunctionPointer" -> <<"f", "n">>
      [] OTHER -> caption(t, context)

(* C14: for a Named type whose path has several segments and is not in std, *)
(* the label is made of the segments left after the longest leading run     *)
(* matching the context (matching ends at the first mismatch), each in its  *)
(* snake-case form, a form equal to the one kept just before it collapsed,  *)
(* joined with "_"; it is the bare last segment when the context consumed   *)
(* the whole path.  An indirection's label is the pointee's caption, then   *)
(* the constness marker, then the pointer or reference marker; a function   *)
(* pointer always gives "fn".                                               *)
C14_CaptionLabel ==
    LET t == fn_input.self
        context == fn_input.context
    IN  /\ caption(t, context) = ExpectedCaption(t, context)
        /\ fn_ret.op = "caption" =>
                fn_ret.value = Ok(ExpectedCaption(t, context))

(* The context consumed the first segment only, and the third segment is    *)
(* kept although it equals the third segment of the context.                *)
C14_Witness ==
    /\ fn_ret.op = "caption"
    /\ fn_input.self.tag = "Common"
    /\ fn_input.self.generic_arguments = None
    /\ Len(fn_input.self.path) = 3
    /\ Len(fn_input.context) = 3
    /\ fn_input.self.path[1] # <<"s", "t", "d">>
    /\ MatchedRun(fn_input.self.path, fn_input.context) = 1
    /\ fn_input.self.path[3] = fn_input.context[3]
    /\ fn_ret.value = Ok(to_snake_case(fn_input.self.path[2]) \o <<"_">>
                            \o to_snake_case(fn_input.self.path[3]))
(* C15: across add_cpp_data calls without a clear in between, a stored item *)
(* with a parser source keeps exactly that source (include file and         *)
(* location), and the source of an item without a parser source changes     *)
(* only when a payload that is_same is inserted with a parser source, and   *)
(* then it becomes that source.                                             *)
C15_ParserSourceSticky ==
    [][db_call'.op = "add_cpp_data" =>
        \A i \in 1..Len(cpp_items) :
            LET old == cpp_items[i].source
                new == cpp_items'[i].source
                takes == /\ is_same(cpp_items[i].cpp_data, db_call'.data)
                         /\ is_parser(db_call'.source)
            IN  /\ is_parser(old) => new = old
                /\ ~is_parser(old) =>
                        /\ new # old => (takes /\ new = db_call'.source)
                        /\ takes => new = db_call'.source
    ]_vars

(* A duplicate arrived from the parser with another include file than the   *)
(* one stored, and the stored parser source is still in place.              *)
C15_Witness ==
    /\ db_call.op = "add_cpp_data"
    /\ db_ret = [tag |-> "bool", value |-> FALSE]
    /\ Len(cpp_items) >= 1
    /\ is_same(cpp_items[1].cpp_data, db_call.data)
    /\ is_parser(db_call.source)
    /\ is_parser(cpp_items[1].source)
    /\ cpp_items[1].source.include_file # db_call.source.include_file
====
